---- MODULE Spec2Model ----
(***************************************************************************)
(* Model of the App component (src/App.tsx): the view/state controller of  *)
(* the blog article generator.  The state is the component's useState      *)
(* cells, the localStorage item 'blogArticleHistory', the generation       *)
(* requests that have been issued and not yet settled, and the position of *)
(* the mount effects.  Every handler is one action; the save effect that   *)
(* React runs after a commit that changed `history` is part of the action  *)
(* that changed it.                                                        *)
(*                                                                         *)
(* wordCount, language and tone are request parameters only: no handler    *)
(* branches on them and they are left out of the state.  An Article is     *)
(* modelled by its id and topic; createdAt and content are not read by any *)
(* handler.                                                                *)
(***************************************************************************)
EXTENDS Integers, Sequences, FiniteSets

VARIABLES topic, generatedArticle, isLoading, error, history, view,
          storage, requests, pc, queued,
          lastEvent, saveResult, storedAtMount, failuresLeft, atRequest, observe

vars == <<topic, generatedArticle, isLoading, error, history, view,
          storage, requests, pc, queued,
          lastEvent, saveResult, storedAtMount, failuresLeft, atRequest, observe>>

-----------------------------------------------------------------------------
(* Bounds *)

\* Date.now() readings range over 1..MaxClock.  Date.now() is the wall
\* clock in milliseconds: nothing in the code makes two readings differ or
\* increase (two responses in one millisecond, a clock that is set back).
MaxClock == 2

\* The end index of prevHistory.slice(0, 49), scaled down.
HistoryKeep == 2

\* Requests issued and not yet settled are capped at MaxInflight.
MaxInflight == 2

\* setItem throws at most MaxSaveFailures times in a behaviour.
MaxSaveFailures == 1

\* The length the code keeps the history to ("Keep history to 50 items").
HistoryCap == HistoryKeep + 1

-----------------------------------------------------------------------------
(* Values *)

Space == " "

\* Values of the topic input: empty, whitespace only, and a keyword.
Topics == { <<>>, <<Space>>, <<"a">> }

\* The pages renderContent switches on.  'contact', 'disclaimer', 'privacy'
\* and 'terms' are static pages rendered exactly as 'about' is (a page with
\* onShowMain only) and are represented by it.
Views == {"main", "history", "about"}

ClockValues == 1..MaxClock

Digits == <<"0", "1", "2", "3", "4", "5", "6", "7", "8", "9">>

\* Number.prototype.toString() of a non-negative integer: its decimal digits.
RECURSIVE ToString(_)
ToString(n) ==
    IF n < 10 THEN <<Digits[n + 1]>>
    ELSE ToString(n \div 10) \o <<Digits[(n % 10) + 1]>>

Ids == { ToString(n) : n \in ClockValues }

\* generatedArticle === null
NullArticle == [id |-> <<>>, topic |-> <<>>]

\* error === null
NoError == <<>>

PleaseEnterTopic == <<"Please enter a blog topic or keyword.">>

\* What generateBlogArticle can reject with: an Error with a message, or a
\* value that is not an Error.
Rejections == { [isError |-> TRUE, message |-> "Failed to fetch"],
                [isError |-> FALSE, message |-> ""] }

\* Variant of FormatError: the message without the 'Error: ' prefix.
FormatErrorRaw(e) ==
    <<IF e.isError THEN e.message ELSE "An unexpected error occurred.">>

\* e instanceof Error ? e.message : '...' and the template `Error: ${errorMessage}`
FormatError(e) ==
    <<"Error: ", IF e.isError THEN e.message ELSE "An unexpected error occurred.">>

\* String.prototype.trim(): strip leading and trailing whitespace.
RECURSIVE TrimStart(_)
TrimStart(s) ==
    IF s # <<>> /\ Head(s) = Space THEN TrimStart(Tail(s)) ELSE s

RECURSIVE TrimEnd(_)
TrimEnd(s) ==
    IF s # <<>> /\ s[Len(s)] = Space THEN TrimEnd(SubSeq(s, 1, Len(s) - 1)) ELSE s

\* Variant of Trim: the topic is tested as typed.
NoTrim(s) == s

Trim(s) == TrimEnd(TrimStart(s))

\* Array.prototype.slice(0, end)
Slice0(arr, end) ==
    SubSeq(arr, 1, IF Len(arr) < end THEN Len(arr) ELSE end)

\* Variant of FilterOutId: the predicate inverted.
KeepOnlyId(arr, id) == SelectSeq(arr, LAMBDA item : item.id = id)

\* Array.prototype.filter(item => item.id !== id)
RECURSIVE FilterOutId(_, _)
FilterOutId(arr, id) ==
    IF arr = <<>> THEN <<>>
    ELSE IF Head(arr).id # id
         THEN <<Head(arr)>> \o FilterOutId(Tail(arr), id)
         ELSE FilterOutId(Tail(arr), id)

\* The article built from the service's answer: {...articleData, id: Date.now().toString()}
NewArticle(reqTopic, now) == [id |-> ToString(now), topic |-> reqTopic]

\* Variant of PrependCapped: the new article is put last.
AppendLast(newArticle, prevHistory) ==
    Slice0(prevHistory, HistoryKeep) \o <<newArticle>>

\* Variant of PrependCapped: slice(0, 50).
KeepOneMore(newArticle, prevHistory) ==
    <<newArticle>> \o Slice0(prevHistory, HistoryKeep + 1)

\* The updater prevHistory => [newArticle, ...prevHistory.slice(0, 49)]
PrependCapped(newArticle, prevHistory) ==
    <<newArticle>> \o Slice0(prevHistory, HistoryKeep)

-----------------------------------------------------------------------------
(* localStorage item 'blogArticleHistory' *)

\* getItem returns null: the key was never written.
NoItem == [kind |-> "none", items |-> <<>>]

\* A stored text that JSON.parse rejects.
BadJson == [kind |-> "bad", items |-> <<>>]

\* JSON.stringify(history): the text of an array of objects.
Stringify(h) ==
    [kind |-> "json", items |-> [i \in 1..Len(h) |-> <<h[i].id, h[i].topic>>]]

\* JSON.parse(text) of a text that Stringify wrote.
Parse(s) ==
    [i \in 1..Len(s.items) |-> [id |-> s.items[i][1], topic |-> s.items[i][2]]]

\* `if (storedHistory)`: null is falsy, any non-empty text (also "[]") is truthy.
Truthy(s) == s.kind # "none"

Articles == { NewArticle(<<"a">>, n) : n \in ClockValues }

RECURSIVE SeqsUpTo(_, _)
SeqsUpTo(S, n) ==
    IF n = 0 THEN { <<>> }
    ELSE LET shorter == SeqsUpTo(S, n - 1)
         IN  shorter \cup { <<x>> \o s : x \in S, s \in { t \in shorter : Len(t) = n - 1 } }

\* What an earlier session of the app can have left in storage: nothing, or
\* the text of a history it kept within the cap; or a text damaged outside
\* the app.
InitialStorage ==
    {NoItem, BadJson} \cup { Stringify(h) : h \in SeqsUpTo(Articles, HistoryCap) }

\* Variant of SaveEffect below: setItem outside a try block, so that a
\* throw unmounts the tree.
SaveNoCatch(h, ok, store) ==
    IF ok THEN [storage |-> Stringify(h), result |-> "ok", crashed |-> FALSE]
    ELSE [storage |-> store, result |-> "failed", crashed |-> TRUE]

\* The body of the save effect: try { setItem(JSON.stringify(history)) }
\* catch { console.error }.  ok says whether setItem returned or threw.
SaveEffect(h, ok, store) ==
    IF ok THEN [storage |-> Stringify(h), result |-> "ok", crashed |-> FALSE]
    ELSE [storage |-> store, result |-> "failed", crashed |-> FALSE]

\* Variant of ConfirmAccepted: the answer is ignored.
AnyAnswer(answer) == TRUE

\* if (window.confirm(...)): the answer the dialog returned
ConfirmAccepted(answer) == answer

\* Variant of GenerateEnabled: a button that is never disabled.
AlwaysEnabled(loading) == TRUE

\* <Button onClick={handleGenerateArticle} disabled={isLoading}>
GenerateEnabled(loading) == ~loading

-----------------------------------------------------------------------------
(* Initial state: the useState initialisers, before the mount effects. *)

NoEvent == [op |-> "init", arg |-> <<>>]

NoSnapshot == [article |-> NullArticle, history |-> <<>>, set |-> FALSE]

InitApp ==
    /\ topic = <<>>
    /\ generatedArticle = NullArticle
    /\ isLoading = FALSE
    /\ error = NoError
    /\ history = <<>>
    /\ view = "main"
    /\ storage \in InitialStorage
    /\ requests = <<>>
    /\ pc = "load1"
    /\ queued = <<>>
    /\ lastEvent = NoEvent
    /\ saveResult = "none"
    /\ storedAtMount = storage
    /\ atRequest = NoSnapshot

\* A storage whose setItem can throw, up to MaxSaveFailures times.
Init == InitApp /\ failuresLeft = MaxSaveFailures /\ observe = FALSE

\* A storage whose setItem never throws; atRequest is recorded only in
\* these behaviours.
InitRequest == InitApp /\ failuresLeft = 0 /\ observe = TRUE

-----------------------------------------------------------------------------
(* Bookkeeping of the observation variables.  lastEvent names the handler  *)
(* that ran last and its argument ("other" for the steps no property has   *)
(* to tell apart); saveResult is the outcome of the save effect run by the *)
(* last step ("none" when it ran none); failuresLeft is the number of     *)
(* setItem calls that can still throw; storedAtMount is the storage as the mount found it, dropped *)
(* by the first event after the startup; atRequest is the displayed        *)
(* article and the history as they were when the request in flight was     *)
(* started, dropped by the first event after the request settled.          *)

Event(op, arg) == [op |-> op, arg |-> arg]

Snapshot ==
    IF observe
    THEN [article |-> generatedArticle, history |-> history, set |-> TRUE]
    ELSE NoSnapshot

AfterStartup ==
    /\ storedAtMount' = NoItem
    /\ observe' = observe

KeepSnapshot ==
    atRequest' = IF requests # <<>> THEN atRequest ELSE NoSnapshot

\* Whether the next setItem returns (TRUE) or throws (FALSE).
SaveOutcomes == IF failuresLeft > 0 THEN BOOLEAN ELSE {TRUE}

\* The save effect run with history h.
RunSaveEffect(h, ok) ==
    LET r == SaveEffect(h, ok, storage)
    IN  /\ storage' = r.storage
        /\ saveResult' = r.result
        /\ failuresLeft' = IF ok THEN failuresLeft ELSE failuresLeft - 1
        /\ pc' = IF r.crashed THEN "crashed"
                 ELSE IF pc = "save1" THEN "rerun"
                 ELSE IF pc = "save2" THEN "flush"
                 ELSE "ready"

\* A commit that sets the history to h: the re-render, and the save effect
\* that runs because `history` changed.
CommitHistory(h, ok) ==
    /\ history' = h
    /\ RunSaveEffect(h, ok)

\* A step that runs no save effect.
NoSave ==
    /\ saveResult' = "none"
    /\ UNCHANGED <<storage, failuresLeft>>

RemoveAt(s, i) == SubSeq(s, 1, i - 1) \o SubSeq(s, i + 1, Len(s))

-----------------------------------------------------------------------------
(* Mount: the two effects in declaration order, run a second time when the *)
(* tree is mounted under React.StrictMode in a development build, and then *)
(* the re-render that applies the state updates they queued.               *)

\* useEffect(() => { try { getItem; if (stored) setHistory(JSON.parse(stored)) }
\*                   catch { setHistory([]) } }, [])
LoadEffect ==
    /\ pc \in {"load1", "load2"}
    /\ queued' = IF Truthy(storage)
                 THEN IF storage.kind = "json"
                      THEN Append(queued, Parse(storage))
                      ELSE Append(queued, <<>>)
                 ELSE queued
    /\ pc' = IF pc = "load1" THEN "save1" ELSE "save2"
    /\ lastEvent' = Event("other", <<>>)
    /\ NoSave
    /\ UNCHANGED <<topic, generatedArticle, isLoading, error, history, view,
                   requests, storedAtMount, atRequest, observe>>

\* useEffect(() => { try { setItem(JSON.stringify(history)) } catch {...} }, [history])
\* as run at mount, with the history of the first render.
MountSaveEffect ==
    /\ pc \in {"save1", "save2"}
    /\ \E ok \in SaveOutcomes : RunSaveEffect(history, ok)
    /\ lastEvent' = Event("other", <<>>)
    /\ UNCHANGED <<topic, generatedArticle, isLoading, error, history, view,
                   requests, queued, storedAtMount, atRequest, observe>>

\* After the first run of the mount effects: a development build under
\* React.StrictMode runs them again before it renders the queued updates;
\* any other build goes on to the re-render.
StrictRemount(strictMode) ==
    /\ pc = "rerun"
    /\ pc' = IF strictMode THEN "load2" ELSE "flush"
    /\ lastEvent' = Event("other", <<>>)
    /\ NoSave
    /\ UNCHANGED <<topic, generatedArticle, isLoading, error, history, view,
                   requests, queued, storedAtMount, atRequest, observe>>

\* The re-render after the mount effects: the queued setHistory calls are
\* applied in order (each replaces the state), and the save effect runs
\* with the new history.  With nothing queued there is no re-render.
FlushUpdates ==
    /\ pc = "flush"
    /\ IF queued = <<>>
       THEN /\ pc' = "ready"
            /\ NoSave
            /\ UNCHANGED history
       ELSE \E ok \in SaveOutcomes :
               CommitHistory(queued[Len(queued)], ok)
    /\ queued' = <<>>
    /\ lastEvent' = Event("flush", <<>>)
    /\ UNCHANGED <<topic, generatedArticle, isLoading, error, view,
                   requests, storedAtMount, atRequest, observe>>

-----------------------------------------------------------------------------
(* User events and the settling of a request *)

\* onChange={(e) => setTopic(e.target.value)} of the topic input (main view)
SetTopic(t) ==
    /\ pc = "ready"
    /\ view = "main"
    /\ topic' = t
    /\ lastEvent' = Event("other", <<>>)
    /\ NoSave /\ AfterStartup /\ KeepSnapshot
    /\ UNCHANGED <<generatedArticle, isLoading, error, history, view,
                   requests, pc, queued>>

\* navigate(newView), from the header and the footer of every page
Navigate(newView) ==
    /\ pc = "ready"
    /\ view' = newView
    /\ lastEvent' = Event("other", <<>>)
    /\ NoSave /\ AfterStartup /\ KeepSnapshot
    /\ UNCHANGED <<topic, generatedArticle, isLoading, error, history,
                   requests, pc, queued>>

\* A click on the Generate button: handleGenerateArticle up to its await.
\* The state updates of a click are rendered before the next event is
\* dispatched, so the button is disabled as soon as the step is over.
ClickGenerate ==
    /\ pc = "ready"
    /\ view = "main"
    /\ GenerateEnabled(isLoading)
    /\ Len(requests) < MaxInflight
    /\ IF Trim(topic) = <<>>
       THEN /\ error' = PleaseEnterTopic
            /\ lastEvent' = Event("generate", <<"blocked">>)
            /\ KeepSnapshot
            /\ UNCHANGED <<isLoading, generatedArticle, requests>>
       ELSE /\ isLoading' = TRUE
            /\ error' = NoError
            /\ generatedArticle' = NullArticle
            /\ requests' = Append(requests, [topic |-> topic])
            /\ lastEvent' = Event("generate", <<"sent">>)
            /\ atRequest' = Snapshot
    /\ NoSave /\ AfterStartup
    /\ UNCHANGED <<topic, history, view, pc, queued>>

\* generateBlogArticle resolved: the rest of the try block and the finally.
GenerateResolved(i, now, ok) ==
    /\ pc = "ready"
    /\ i \in 1..Len(requests)
    /\ LET newArticle == NewArticle(requests[i].topic, now)
       IN  /\ generatedArticle' = newArticle
           /\ CommitHistory(PrependCapped(newArticle, history), ok)
    /\ isLoading' = FALSE
    /\ requests' = RemoveAt(requests, i)
    /\ lastEvent' = Event("resolved", <<>>)
    /\ AfterStartup
    /\ UNCHANGED <<topic, error, view, queued, atRequest>>

\* generateBlogArticle rejected with e: the catch block and the finally.
GenerateRejected(i, e) ==
    /\ pc = "ready"
    /\ i \in 1..Len(requests)
    /\ error' = FormatError(e)
    /\ isLoading' = FALSE
    /\ requests' = RemoveAt(requests, i)
    /\ lastEvent' = Event("rejected", <<>>)
    /\ NoSave /\ AfterStartup
    /\ UNCHANGED <<topic, generatedArticle, history, view, pc, queued,
                   atRequest>>

\* handleSelectFromHistory(article), from an entry of the history page
SelectFromHistory(k) ==
    /\ pc = "ready"
    /\ view = "history"
    /\ k \in 1..Len(history)
    /\ generatedArticle' = history[k]
    /\ view' = "main"
    /\ lastEvent' = Event("other", <<>>)
    /\ NoSave /\ AfterStartup /\ KeepSnapshot
    /\ UNCHANGED <<topic, isLoading, error, history, requests, pc, queued>>

\* handleDeleteFromHistory(id), from the history page
DeleteFromHistory(id, ok) ==
    /\ pc = "ready"
    /\ view = "history"
    /\ CommitHistory(FilterOutId(history, id), ok)
    /\ lastEvent' = Event("delete", <<id>>)
    /\ AfterStartup /\ KeepSnapshot
    /\ UNCHANGED <<topic, generatedArticle, isLoading, error, view, requests,
                   queued>>

\* handleClearHistory(), from the history page; confirmed is what
\* window.confirm returned.
ClearHistory(confirmed, ok) ==
    /\ pc = "ready"
    /\ view = "history"
    /\ IF ConfirmAccepted(confirmed)
       THEN /\ CommitHistory(<<>>, ok)
            /\ generatedArticle' = IF view = "history" THEN generatedArticle
                                   ELSE NullArticle
       ELSE /\ NoSave
            /\ UNCHANGED <<history, pc, generatedArticle>>
    /\ lastEvent' = Event("clear", <<confirmed>>)
    /\ AfterStartup /\ KeepSnapshot
    /\ UNCHANGED <<topic, isLoading, error, view, requests, queued>>

Next ==
    \/ LoadEffect
    \/ MountSaveEffect
    \/ \E strictMode \in BOOLEAN : StrictRemount(strictMode)
    \/ FlushUpdates
    \/ \E t \in Topics : SetTopic(t)
    \/ \E v \in Views : Navigate(v)
    \/ ClickGenerate
    \/ \E i \in 1..MaxInflight, now \in ClockValues, ok \in SaveOutcomes :
          GenerateResolved(i, now, ok)
    \/ \E i \in 1..MaxInflight, e \in Rejections : GenerateRejected(i, e)
    \/ \E k \in 1..HistoryCap : SelectFromHistory(k)
    \/ \E id \in Ids, ok \in SaveOutcomes : DeleteFromHistory(id, ok)
    \/ \E confirmed \in BOOLEAN, ok \in SaveOutcomes : ClearHistory(confirmed, ok)

Spec == Init /\ [][Next]_vars

SpecRequest == InitRequest /\ [][Next]_vars

-----------------------------------------------------------------------------
(* Properties *)

\* A topic that is empty or consists only of whitespace.
IsBlank(t) == \A i \in 1..Len(t) : t[i] = Space

Range(s) == { s[i] : i \in 1..Len(s) }

Min(a, b) == IF a < b THEN a ELSE b

HasId(h, id) == \E i \in 1..Len(h) : h[i].id = id

IsFormattedError(err) == Len(err) = 2 /\ err[1] = "Error: "

\* C1: a click on Generate while the topic is empty or only whitespace
\* issues no request and leaves the error at the 'Please enter a blog topic
\* or keyword.' message; the history, the displayed article and the loading
\* flag are unchanged by it.
C1_BlankTopicBlocked ==
    [][ (lastEvent'.op = "generate" /\ IsBlank(topic)) =>
            /\ requests' = requests
            /\ error' = PleaseEnterTopic
            /\ history' = history
            /\ generatedArticle' = generatedArticle
            /\ isLoading' = isLoading ]_vars

C1_Witness ==
    /\ lastEvent = Event("generate", <<"blocked">>)
    /\ topic = <<Space>>
    /\ error = PleaseEnterTopic
    /\ history # <<>>

\* C2 (as stated): when a generation request fails, the error is a
\* formatted error string, the loading flag is cleared, and the displayed
\* article and the history are the same as they were before the request
\* was started.
C2_FailureRestoresPriorState ==
    lastEvent.op = "rejected" =>
        /\ IsFormattedError(error)
        /\ ~isLoading
        /\ generatedArticle = atRequest.article
        /\ history = atRequest.history

\* C2 (amended): when a generation request fails, the error is set to a
\* formatted error string and the loading flag is cleared, and the failure
\* itself changes neither the displayed article nor the history; the
\* displayed article was already cleared to null when the request was
\* started.
C2_FailureStep ==
    [][ /\ lastEvent'.op = "rejected" =>
            /\ IsFormattedError(error')
            /\ ~isLoading'
            /\ generatedArticle' = generatedArticle
            /\ history' = history
        /\ lastEvent' = Event("generate", <<"sent">>) =>
            /\ generatedArticle' = NullArticle
            /\ history' = history ]_vars

C2_Witness ==
    /\ lastEvent.op = "rejected"
    /\ atRequest.set
    /\ atRequest.article # NullArticle
    /\ generatedArticle = NullArticle
    /\ IsFormattedError(error)

\* C3: the history never holds more than HistoryCap articles, and a
\* successful generation into a full history drops the last entry and keeps
\* the others in order behind the new one.
C3_HistoryCapped ==
    /\ [](Len(history) <= HistoryCap)
    /\ [][ (lastEvent'.op = "resolved" /\ Len(history) = HistoryCap) =>
              /\ Len(history') = HistoryCap
              /\ \A i \in 1..(HistoryCap - 1) : history'[i + 1] = history[i] ]_vars

C3_Witness ==
    /\ lastEvent.op = "resolved"
    /\ Len(history) = HistoryCap
    /\ history[2].id # history[3].id

\* C4: at most one generation request is in flight at any time.
C4_OneRequestInFlight == Len(requests) <= 1

C4_Witness ==
    /\ Len(requests) = 1
    /\ isLoading
    /\ view = "main"
    /\ generatedArticle # NullArticle

\* C5: a successful generation puts exactly one new article at the front of
\* the history as it is when the response arrives, displays that article,
\* and leaves the error null.
C5_SuccessPrepends ==
    [][ lastEvent'.op = "resolved" =>
            /\ Len(history') = Min(Len(history) + 1, HistoryCap)
            /\ generatedArticle' # NullArticle
            /\ history'[1] = generatedArticle'
            /\ \A i \in 2..Len(history') : history'[i] = history[i - 1]
            /\ error' = NoError ]_vars

C5_Witness ==
    /\ lastEvent.op = "resolved"
    /\ Len(history) = 2
    /\ generatedArticle = history[1]
    /\ history[1] # history[2]
    /\ error = NoError

\* C6 (as stated): an article leaves the history only in a step that is
\* handleDeleteFromHistory with its id or a confirmed handleClearHistory.
C6_RemovedOnlyByUser ==
    [][ \A a \in Range(history) :
            a \notin Range(history') =>
                \/ lastEvent' = Event("delete", <<a.id>>)
                \/ lastEvent' = Event("clear", <<TRUE>>) ]_vars

\* C6 (amended): an article leaves the history only in a step that is
\* handleDeleteFromHistory with its id, a confirmed handleClearHistory, or
\* a successful generation into a full history, which drops its last entry.
C6_RemovedByUserOrEviction ==
    [][ \A a \in Range(history) :
            a \notin Range(history') =>
                \/ lastEvent' = Event("delete", <<a.id>>)
                \/ lastEvent' = Event("clear", <<TRUE>>)
                \/ /\ lastEvent'.op = "resolved"
                   /\ Len(history) = HistoryCap
                   /\ a = history[HistoryCap] ]_vars

C6_Witness ==
    /\ lastEvent.op = "delete"
    /\ Len(history) = HistoryKeep
    /\ ~HasId(history, lastEvent.arg[1])
    /\ isLoading

\* C7: handleDeleteFromHistory(id) removes exactly one entry when the id is
\* present, keeping every other article in order, and changes nothing when
\* the id is absent.
C7_DeleteRemovesOne ==
    [][ lastEvent'.op = "delete" =>
            LET id == lastEvent'.arg[1]
            IN  IF HasId(history, id)
                THEN \E k \in 1..Len(history) :
                        /\ history[k].id = id
                        /\ history' = RemoveAt(history, k)
                ELSE history' = history ]_vars

\* C8: handleClearHistory empties the history when the user confirms; when
\* the user does not confirm, the history, the displayed article and the
\* view are unchanged.
C8_ClearHistory ==
    [][ lastEvent'.op = "clear" =>
            IF lastEvent'.arg[1]
            THEN history' = <<>>
            ELSE /\ history' = history
                 /\ generatedArticle' = generatedArticle
                 /\ view' = view ]_vars

C8_Witness ==
    /\ lastEvent = Event("clear", <<TRUE>>)
    /\ history = <<>>
    /\ generatedArticle # NullArticle
    /\ view = "history"

\* C9: every change of the history is followed by a save attempt; when the
\* save succeeds storage holds exactly the history, and when it fails the
\* storage is left as it was, the history keeps its new value and the app
\* goes on accepting events.
C9_BestEffortSave ==
    /\ [](pc # "crashed")
    /\ [](saveResult = "ok" => storage = Stringify(history))
    /\ [][ history' # history => saveResult' \in {"ok", "failed"} ]_vars
    /\ [][ saveResult' = "failed" =>
              /\ storage' = storage
              /\ lastEvent' = Event("clear", <<TRUE>>) => history' = <<>>
              /\ lastEvent'.op = "delete" => ~HasId(history', lastEvent'.arg[1])
              /\ lastEvent'.op = "resolved" =>
                    /\ history'[1] = generatedArticle'
                    /\ Len(history') = Min(Len(history) + 1, HistoryCap) ]_vars

C9_Witness ==
    /\ saveResult = "failed"
    /\ lastEvent.op = "resolved"
    /\ pc = "ready"
    /\ storage.kind = "json"
    /\ storage # Stringify(history)

\* C10: when storage holds a parseable, non-empty history list at mount,
\* then once the startup effects have all run (and no save has thrown) the
\* history equals the stored list and storage holds that list again, also
\* when the mount effects were run a second time.
C10_StartupKeepsHistory ==
    ( /\ pc = "ready"
      /\ lastEvent.op = "flush"
      /\ storedAtMount.kind = "json"
      /\ storedAtMount.items # <<>>
      /\ failuresLeft = MaxSaveFailures ) =>
        /\ history = Parse(storedAtMount)
        /\ storage = storedAtMount

====
